---- MODULE Spec2Model ----
(***************************************************************************)
(* Model of the blue/green deployment orchestration of                     *)
(* aws-codebuild-run-build (runDeploy and the functions it awaits).        *)
(* One run of runDeploy is modelled; every external AWS call is an         *)
(* action whose outcome (result or failure) is chosen by the environment.  *)
(***************************************************************************)
EXTENDS Integers, Sequences, FiniteSets, TLC

\* ---------------------------------------------------------------- bounds
MaxPolls == 3        \* status fetches allowed in one poll loop of the model
MaxInflight == 2     \* overlapping interval callbacks awaiting a response
MaxListing == 2      \* entries of one describeInstanceStatus listing

\* ------------------------------------------------------- program constants
NEW_INSTANCE_TAG == "CODEDEPLOY_TARGET"
DEPLOYED_INSTANCE_TAG == "ACTIVE_API_INSTANCE"
\* NEW_INSTANCE_TAG + "_DOCTOLIB" and DEPLOYED_INSTANCE_TAG + "_DOCTOLIB"
NEW_INSTANCE_TAG_DOCTOLIB == "CODEDEPLOY_TARGET_DOCTOLIB"
DEPLOYED_INSTANCE_TAG_DOCTOLIB == "ACTIVE_API_INSTANCE_DOCTOLIB"

ScaleTimeout == 60
ScaleIntervalTime == 10 * 1000
WaitForTimeout == 300
WaitForIntervalTime == 10 * 1000
DefaultWait == 1000 * 30
DefaultBackOff == 1000 * 15

Undefined == "undefined"

\* --------------------------------------------------------- input universes
DeploymentTypes == {"in-place", "blue-green", ""}
BranchNames == {"master", "doctolib", "other"}
Instances == {"i-old", "i-new", "i-other"}
GroupNames == {"Academy-ASG", "Doctolib-ASG"}
DeploymentIds == {"d-1", "d-2"}
Overviews == {"ov-a", "ov-b"}
DetailStatuses == {"initializing", "passed"}
InstanceStatusValues == {Undefined, "pending", "initializing", "ok", "unknown"}
DeploymentStatuses ==
  {"Created", "Queued", "InProgress", "Ready", "Succeeded", "Failed",
   "Stopped", "Baked"}
\* top-level errorInformation of a getDeployment response: absent or present
NoErrorInformation == [code |-> Undefined, message |-> Undefined, present |-> FALSE]
ErrorInformations ==
  {NoErrorInformation,
   [code |-> "HEALTH_CONSTRAINTS", message |-> "unhealthy", present |-> TRUE]}
NoResponse ==
  [status |-> Undefined, overview |-> Undefined,
   errorInformation |-> NoErrorInformation]
\* wait / backOff fields an sdk object may carry
\* (<< >>: the field is absent and the destructuring default applies)
SdkWaits == {<< >>, <<0>>, <<1000>>}
SdkBackOffs == {<< >>, <<0>>, <<500>>}

\* ------------------------------------------------------------------ state
VARIABLES
  pc,                \* position of runDeploy (or of a direct deploy call)
  entry,             \* "runDeploy" or "deploy": the exported function called
  inputs,            \* githubInputs(): deploymentType, branchName
  sdk,               \* the sdk object the caller hands to deploy: wait, backOff
  calls,             \* external mutating calls issued so far, in order
  desiredCapacity,   \* DesiredCapacity of the scaling group
  tags,              \* instance -> set of tag keys
  dgAutoScalingGroups, \* autoScalingGroups of the deployment group
                     \* (initially the scaling group of the profile)
  dgTagFilters,      \* ec2TagFilters keys of the deployment group
  autoscalingGroup,  \* result of getAutoScalingGroup
  instanceId,        \* result of scale("UP")
  scaleTotalTime, scaleTimer, scaleInflight,   \* setInterval loop of scale
  waitTotalTime, waitTimer, waitInflight,      \* setInterval loop of waitFor
  tagOps,            \* requests of updateTags(.., "") still in flight
  previousDeployment, \* first in-progress deployment found by waitForDeployment
  deploymentId,      \* id returned by createDeployment
  wait, newWait,     \* poll loop: wait of this invocation, computed newWait
  fetches,           \* getDeployment calls issued by the poll loop
  deploymentStatus,  \* response held by the current poll invocation
  inProgressSeen,    \* responses so far whose status was InProgress
  sleeps,            \* durations of the sleeps of the poll loop, in order
  deployInfos,       \* value returned by deploy / runDeploy
  error,             \* value runDeploy (deploy) rejected with
  instanceStatus,    \* InstanceStatus read by the last completed callback of
                     \* the waitFor interval while the interval was set
  runPc,             \* position of run(): "running", "complete" or "threw"
  output,            \* value published with core.setOutput
  failed             \* messages passed to core.setFailed, in order

vars ==
  << pc, entry, inputs, sdk, calls, desiredCapacity, tags,
     dgAutoScalingGroups, dgTagFilters, autoscalingGroup, instanceId,
     scaleTotalTime, scaleTimer, scaleInflight,
     waitTotalTime, waitTimer, waitInflight, tagOps,
     previousDeployment, deploymentId, wait, newWait, fetches,
     deploymentStatus, inProgressSeen, sleeps,
     deployInfos, error, instanceStatus, runPc, output, failed >>

runVars == << runPc, output, failed >>
envVars == << desiredCapacity, tags, dgAutoScalingGroups, dgTagFilters >>
scaleVars == << scaleTotalTime, scaleTimer, scaleInflight >>
waitForVars == << waitTotalTime, waitTimer, waitInflight, instanceStatus >>
pollVars ==
  << wait, newWait, fetches, deploymentStatus, inProgressSeen, sleeps >>

\* ----------------------------------------------------------- error values
NoError == [kind |-> "none", message |-> Undefined, code |-> Undefined,
            deploymentId |-> Undefined]
\* an error of the AWS SDK (a rejected .promise())
ServiceError == [kind |-> "Error", message |-> "service error",
                 code |-> "ServiceFailure", deploymentId |-> Undefined]
\* reject() called without a reason: the awaiting function throws undefined
UndefinedReason == [kind |-> Undefined, message |-> Undefined,
                    code |-> Undefined, deploymentId |-> Undefined]
ReferenceError(name) ==
  [kind |-> "ReferenceError", message |-> name, code |-> Undefined,
   deploymentId |-> Undefined]
TypeErrorValue ==
  [kind |-> "TypeError", message |-> "Cannot read property 'code' of undefined",
   code |-> Undefined, deploymentId |-> Undefined]
\* new Error(obj): the argument is converted to a string and becomes the
\* message; the properties of obj are not copied to the error
ErrorOfObject(obj) ==
  [kind |-> "Error", message |-> "[object Object]", code |-> Undefined,
   deploymentId |-> Undefined]

NoResult == [status |-> Undefined, overview |-> Undefined,
             deploymentId |-> Undefined]

Call(op, arg) == [op |-> op, arg |-> arg]

\* ---------------------------------------------------------- configuration
branchOptions ==
  [b \in {"master", "doctolib", "feature/multibranch-deploy"} |->
     IF b = "master"
     THEN [applicationName |-> "InTeach-Academy",
           deploymentGroupName |-> "Production-BlueGreen",
           autoscalingGroupName |-> "academy",
           newInstanceTag |-> NEW_INSTANCE_TAG,
           deployedInstanceTag |-> DEPLOYED_INSTANCE_TAG]
     ELSE [applicationName |-> "Doctolib",
           deploymentGroupName |-> "Doctolib-BlueGreen",
           autoscalingGroupName |-> "doctolib",
           newInstanceTag |-> NEW_INSTANCE_TAG_DOCTOLIB,
           deployedInstanceTag |-> DEPLOYED_INSTANCE_TAG_DOCTOLIB]]

\* branchOptions[inputs.branchName] || branchOptions.master
OptsOf(branchName) ==
  IF branchName \in DOMAIN branchOptions
  THEN branchOptions[branchName]
  ELSE branchOptions["master"]

opts == OptsOf(inputs.branchName)

\* targetInstances of the request: the key of the tag set, or Undefined
inputs2Parameters(in, o) ==
  [applicationName |-> o.applicationName,
   deploymentGroupName |-> o.deploymentGroupName,
   targetInstances |->
     IF in.deploymentType = "blue-green" THEN o.newInstanceTag ELSE Undefined]

params == inputs2Parameters(inputs, opts)

\* group.AutoScalingGroupName.toLowerCase().includes(autoscalingGroupName)
LowerIncludes(groupName, part) ==
  \/ groupName = "Academy-ASG" /\ part = "academy"
  \/ groupName = "Doctolib-ASG" /\ part = "doctolib"

RECURSIVE FindIndex(_, _, _)
\* Array.prototype.find as an index: first i >= from with P[i], else 0
FindIndex(flags, from, len) ==
  IF from > len THEN 0
  ELSE IF flags[from] THEN from
  ELSE FindIndex(flags, from + 1, len)

\* sequences over S of length 0..n
SeqsUpTo(S, n) == UNION {[1..k -> S] : k \in 0..n}

\* buildSdk returns { codeDeploy, autoScaling }: no wait and no backOff field
buildSdk == [wait |-> << >>, backOff |-> << >>]

\* ------------------------------------------------------------------- Init
Init ==
  /\ pc = "Idle"
  /\ entry = "runDeploy"
  /\ inputs \in [deploymentType : DeploymentTypes, branchName : BranchNames]
  /\ sdk = buildSdk
  /\ calls = << >>
  /\ desiredCapacity = 1
  /\ tags = [i \in Instances |-> {}]
  /\ dgAutoScalingGroups =
       << CHOOSE g \in GroupNames : LowerIncludes(g, opts.autoscalingGroupName) >>
  /\ dgTagFilters = {}
  /\ autoscalingGroup = Undefined
  /\ instanceId = Undefined
  /\ scaleTotalTime = 0 /\ scaleTimer = FALSE /\ scaleInflight = 0
  /\ waitTotalTime = 0 /\ waitTimer = FALSE /\ waitInflight = 0
  /\ tagOps = {}
  /\ previousDeployment = Undefined
  /\ deploymentId = Undefined
  /\ wait = 0 /\ newWait = 0
  /\ fetches = 0
  /\ deploymentStatus = NoResponse
  /\ inProgressSeen = 0
  /\ sleeps = << >>
  /\ deployInfos = NoResult
  /\ error = NoError
  /\ instanceStatus = Undefined
  /\ runPc = "running"
  /\ output = Undefined
  /\ failed = << >>

\* runDeploy (or deploy) rejects with e
Throw(e) == pc' = "Failed" /\ error' = e


\* the function names the module declares (function declarations of the file)
DeclaredFunctions ==
  {"runDeploy", "waitForDeployment", "updateDeploymentGroup",
   "getAutoScalingGroup", "scale", "updateTags", "waitFor", "deploy",
   "waitForBuildEndTime", "githubInputs", "inputs2Parameters", "buildSdk",
   "logName"}

\* the identifier runDeploy calls on the in-place branch
InPlaceCallee == "depoy"

\* const { wait = 1000 * 30, backOff = 1000 * 15 } = sdk
WaitOf(s) == IF s.wait = << >> THEN DefaultWait ELSE s.wait[1]
BackOffOf(s) == IF s.backOff = << >> THEN DefaultBackOff ELSE s.backOff[1]

\* mutant: scaling down writes a capacity of 0
DesiredCapacityOf_DownToZero(direction) == IF direction = "UP" THEN 2 ELSE 0

\* const DesiredCapacity = direction === "UP" ? 2 : 1
DesiredCapacityOf(direction) == IF direction = "UP" THEN 2 ELSE 1
CapacityArg(n) == IF n = 2 THEN "2" ELSE IF n = 1 THEN "1" ELSE "other"

\* deploy(sdk, params): createDeployment, then the first invocation of
\* waitForBuildEndTime with the sdk it was given
Deploy ==
  /\ pc = "Submitting"
  /\ calls' = Append(calls, Call("createDeployment", params.targetInstances))
  /\ \/ /\ Throw(ServiceError)
        /\ UNCHANGED << deploymentId, wait >>
     \/ /\ deploymentId' \in DeploymentIds
        /\ wait' = WaitOf(sdk)
        /\ pc' = "Fetching"
        /\ UNCHANGED error
  /\ UNCHANGED << runVars, entry, inputs, sdk, envVars, autoscalingGroup, instanceId,
                  scaleVars, waitForVars, tagOps, previousDeployment,
                  newWait, fetches, deploymentStatus, inProgressSeen, sleeps,
                  deployInfos >>

\* mutant: the deployment type is not tested, every run scales and tags
RunDeploy_NoInPlaceBranch ==
  /\ pc = "Idle"
  /\ entry = "runDeploy"
  /\ pc' = "FindingASG"
  /\ UNCHANGED << runVars, entry, inputs, sdk, calls, envVars, autoscalingGroup,
                  instanceId, scaleVars, waitForVars, tagOps,
                  previousDeployment, deploymentId, pollVars, deployInfos,
                  error >>

\* runDeploy up to its first await
RunDeploy ==
  /\ pc = "Idle"
  /\ entry = "runDeploy"
  /\ IF inputs.deploymentType = "in-place"
     THEN IF InPlaceCallee \in DeclaredFunctions
          THEN pc' = "Submitting" /\ UNCHANGED error
          ELSE Throw(ReferenceError(InPlaceCallee))
     ELSE pc' = "FindingASG" /\ UNCHANGED error
  /\ UNCHANGED << runVars, entry, inputs, sdk, calls, envVars, autoscalingGroup,
                  instanceId, scaleVars, waitForVars, tagOps,
                  previousDeployment, deploymentId, pollVars, deployInfos >>

\* AutoScalingGroups.find(group => name.toLowerCase().includes(part))
FindGroup(groups, part) ==
  FindIndex([i \in 1..Len(groups) |-> LowerIncludes(groups[i], part)],
            1, Len(groups))

getAutoScalingGroup ==
  /\ pc = "FindingASG"
  /\ \/ /\ Throw(ServiceError)
        /\ UNCHANGED autoscalingGroup
     \/ \E groups \in SeqsUpTo(GroupNames, 2) :
          LET i == FindGroup(groups, opts.autoscalingGroupName) IN
          IF i = 0
          THEN /\ Throw([kind |-> "Error",
                         message |-> "Autoscaling group not found",
                         code |-> Undefined, deploymentId |-> Undefined])
               /\ UNCHANGED autoscalingGroup
          ELSE /\ autoscalingGroup' = groups[i]
               /\ pc' = "ScalingUp"
               /\ UNCHANGED error
  /\ UNCHANGED << runVars, entry, inputs, sdk, calls, envVars, instanceId, scaleVars,
                  waitForVars, tagOps, previousDeployment, deploymentId,
                  pollVars, deployInfos >>

\* scale("UP", group): the capacity update, then the interval is created
ScaleUp ==
  /\ pc = "ScalingUp"
  /\ calls' = Append(calls, Call("updateAutoScalingGroup",
                                 CapacityArg(DesiredCapacityOf("UP"))))
  /\ \/ /\ Throw(ServiceError)
        /\ UNCHANGED << desiredCapacity, scaleVars >>
     \/ /\ desiredCapacity' = DesiredCapacityOf("UP")
        /\ scaleTotalTime' = 0
        /\ scaleTimer' = TRUE
        /\ UNCHANGED scaleInflight
        /\ pc' = "Discovering"
        /\ UNCHANGED error
  /\ UNCHANGED << runVars, entry, inputs, sdk, tags, dgAutoScalingGroups, dgTagFilters,
                  autoscalingGroup, instanceId, waitForVars, tagOps,
                  previousDeployment, deploymentId, pollVars, deployInfos >>

\* one firing of the interval of scale: timeout check, else a status request.
\* totalTime is read by this check only: once the interval is cleared it is
\* never read again, and the model stops tracking it (0).
ScaleTick ==
  /\ scaleTimer
  /\ pc # "Crashed"
  /\ IF scaleTotalTime \div 1000 > ScaleTimeout
     THEN /\ scaleTimer' = FALSE
          /\ scaleTotalTime' = 0
          /\ UNCHANGED scaleInflight
          /\ IF pc = "Discovering"
             THEN Throw(UndefinedReason)
             ELSE UNCHANGED << pc, error >>
     ELSE /\ scaleInflight < MaxInflight
          /\ scaleInflight' = scaleInflight + 1
          /\ UNCHANGED << scaleTimer, scaleTotalTime, pc, error >>
  /\ UNCHANGED << runVars, entry, inputs, sdk, calls, envVars, autoscalingGroup,
                  instanceId, waitForVars, tagOps, previousDeployment,
                  deploymentId, pollVars, deployInfos >>

\* the instances of the region that describeInstanceStatus() lists: the one
\* the scaling group launches for DesiredCapacity 2, the one the group had
\* before, and one that belongs to no scaling group of the run
NewInstance == "i-new"
PreExistingInstance == "i-old"
GroupInstances == {PreExistingInstance, NewInstance}

\* an entry of InstanceStatuses: the instance and its InstanceStatus.Details
ListingEntries == [InstanceId : Instances, Details : SUBSET DetailStatuses]

\* InstanceStatuses.find(s => s.InstanceStatus.Details.find(
\*   d => d.Status === "initializing"))
FindInitializing(listing) ==
  FindIndex([i \in 1..Len(listing) |-> "initializing" \in listing[i].Details],
            1, Len(listing))

\* a status request of the interval of scale returns its listing
ScaleResponse ==
  /\ scaleInflight > 0
  /\ pc # "Crashed"
  /\ scaleInflight' = scaleInflight - 1
  /\ \E listing \in SeqsUpTo(ListingEntries, MaxListing) :
       LET i == FindInitializing(listing) IN
       IF i # 0
       THEN /\ scaleTimer' = FALSE
            /\ scaleTotalTime' = 0
            /\ IF pc = "Discovering"
               THEN /\ instanceId' = listing[i].InstanceId
                    /\ pc' = "AwaitingReady"
                    /\ waitTotalTime' = 0
                    /\ waitTimer' = TRUE
               ELSE UNCHANGED << instanceId, pc, waitTotalTime, waitTimer >>
       ELSE /\ scaleTotalTime' =
                 IF scaleTimer THEN scaleTotalTime + ScaleIntervalTime ELSE 0
            /\ UNCHANGED << scaleTimer, instanceId, pc, waitTotalTime,
                            waitTimer >>
  /\ UNCHANGED << runVars, entry, inputs, sdk, calls, envVars, autoscalingGroup,
                  waitInflight, instanceStatus, tagOps, previousDeployment,
                  deploymentId, pollVars, deployInfos, error >>

\* a status request of the interval of scale fails: the async callback
\* rejects and nothing handles it (a warning, or the process is terminated)
ScaleRequestFails ==
  /\ scaleInflight > 0
  /\ pc # "Crashed"
  /\ scaleInflight' = scaleInflight - 1
  /\ \/ UNCHANGED pc
     \/ pc' = "Crashed"
  /\ UNCHANGED << runVars, entry, inputs, sdk, calls, envVars, autoscalingGroup,
                  instanceId, scaleTotalTime, scaleTimer, waitForVars, tagOps,
                  previousDeployment, deploymentId, pollVars, deployInfos,
                  error >>

\* one firing of the interval of waitFor
WaitForTick ==
  /\ waitTimer
  /\ pc # "Crashed"
  /\ IF waitTotalTime \div 1000 > WaitForTimeout
     THEN /\ waitTimer' = FALSE
          /\ waitTotalTime' = 0
          /\ UNCHANGED << waitInflight, instanceStatus >>
          /\ IF pc = "AwaitingReady"
             THEN Throw(UndefinedReason)
             ELSE UNCHANGED << pc, error >>
     ELSE /\ waitInflight < MaxInflight
          /\ waitInflight' = waitInflight + 1
          /\ UNCHANGED << waitTimer, waitTotalTime, instanceStatus, pc,
                          error >>
  /\ UNCHANGED << runVars, entry, inputs, sdk, calls, envVars, autoscalingGroup,
                  instanceId, scaleVars, tagOps, previousDeployment,
                  deploymentId, pollVars, deployInfos >>

\* status.InstanceStatuses[0] && ...InstanceStatus && ...Status
FirstStatus(statuses) ==
  IF Len(statuses) = 0 THEN Undefined ELSE statuses[1]

\* mutant: any reported status counts as ready
IsReady_AnyStatus(status) == status # Undefined

\* if (InstanceStatus === "ok")
IsReady(status) == status = "ok"

\* a status request of the interval of waitFor returns
WaitForResponse ==
  /\ waitInflight > 0
  /\ pc # "Crashed"
  /\ waitInflight' = waitInflight - 1
  /\ \E statuses \in SeqsUpTo(InstanceStatusValues, 1) :
       /\ instanceStatus' =
            IF waitTimer THEN FirstStatus(statuses) ELSE instanceStatus
       /\ IF IsReady(FirstStatus(statuses))
          THEN /\ waitTimer' = FALSE
               /\ waitTotalTime' = 0
               /\ IF pc = "AwaitingReady"
                  THEN /\ pc' = "ListingDeployments"
                       /\ calls' = Append(calls,
                                          Call("observedOk", instanceId))
                  ELSE UNCHANGED << pc, calls >>
          ELSE /\ waitTotalTime' =
                    IF waitTimer THEN waitTotalTime + WaitForIntervalTime
                    ELSE 0
               /\ UNCHANGED << waitTimer, pc, calls >>
  /\ UNCHANGED << runVars, entry, inputs, sdk, envVars, autoscalingGroup, instanceId,
                  scaleVars, tagOps, previousDeployment, deploymentId,
                  pollVars, deployInfos, error >>

WaitForRequestFails ==
  /\ waitInflight > 0
  /\ pc # "Crashed"
  /\ waitInflight' = waitInflight - 1
  /\ \/ UNCHANGED pc
     \/ pc' = "Crashed"
  /\ UNCHANGED << runVars, entry, inputs, sdk, calls, envVars, autoscalingGroup,
                  instanceId, scaleVars, waitTotalTime, waitTimer,
                  instanceStatus, tagOps, previousDeployment, deploymentId,
                  pollVars, deployInfos, error >>


\* mutant: a deployment in progress is noted but not waited for
waitForDeployment_SkipsWait ==
  /\ pc = "ListingDeployments"
  /\ \/ /\ Throw(ServiceError)
        /\ UNCHANGED previousDeployment
     \/ \E deployments \in SeqsUpTo(DeploymentIds, 1) :
          /\ previousDeployment' =
               IF Len(deployments) = 0 THEN previousDeployment
               ELSE deployments[1]
          /\ pc' = "Tagging"
          /\ UNCHANGED error
  /\ UNCHANGED << runVars, entry, inputs, sdk, calls, envVars, autoscalingGroup,
                  instanceId, scaleVars, waitForVars, tagOps, deploymentId,
                  pollVars, deployInfos >>

\* waitForDeployment: listDeployments and the destructuring of its first id
waitForDeployment ==
  /\ pc = "ListingDeployments"
  /\ \/ /\ Throw(ServiceError)
        /\ UNCHANGED previousDeployment
     \/ \E deployments \in SeqsUpTo(DeploymentIds, 1) :
          IF Len(deployments) = 0
          THEN /\ pc' = "Tagging"
               /\ UNCHANGED << previousDeployment, error >>
          ELSE /\ previousDeployment' = deployments[1]
               /\ pc' = "AwaitingPrevious"
               /\ UNCHANGED error
  /\ UNCHANGED << runVars, entry, inputs, sdk, calls, envVars, autoscalingGroup,
                  instanceId, scaleVars, waitForVars, tagOps, deploymentId,
                  pollVars, deployInfos >>

\* codeDeploy.waitFor("deploymentSuccessful", { deploymentId })
WaitDeploymentSuccessful ==
  /\ pc = "AwaitingPrevious"
  /\ \/ Throw([kind |-> "Error", message |-> "Resource is not in the state",
               code |-> "ResourceNotReady", deploymentId |-> Undefined])
     \/ pc' = "Tagging" /\ UNCHANGED error
  /\ previousDeployment' = Undefined
  /\ UNCHANGED << runVars, entry, inputs, sdk, calls, envVars, autoscalingGroup,
                  instanceId, scaleVars, waitForVars, tagOps, deploymentId,
                  pollVars, deployInfos >>

\* mutant: the target tag is put on every listed instance
UpdateTagsTarget_TagsEveryInstance ==
  /\ pc = "Tagging"
  /\ calls' = Append(calls, Call("createTags", opts.newInstanceTag))
  /\ \/ /\ Throw(ServiceError)
        /\ UNCHANGED tags
     \/ /\ tags' = [i \in Instances |-> tags[i] \cup {opts.newInstanceTag}]
        /\ pc' = "Detaching"
        /\ UNCHANGED error
  /\ UNCHANGED << runVars, entry, inputs, sdk, desiredCapacity, dgAutoScalingGroups,
                  dgTagFilters, autoscalingGroup, instanceId, scaleVars,
                  waitForVars, tagOps, previousDeployment, deploymentId,
                  pollVars, deployInfos >>

\* updateTags(instanceId, "target", opts)
UpdateTagsTarget ==
  /\ pc = "Tagging"
  /\ calls' = Append(calls, Call("createTags", opts.newInstanceTag))
  /\ \/ /\ Throw(ServiceError)
        /\ UNCHANGED tags
     \/ /\ tags' = [tags EXCEPT ![instanceId] = @ \cup {opts.newInstanceTag}]
        /\ pc' = "Detaching"
        /\ UNCHANGED error
  /\ UNCHANGED << runVars, entry, inputs, sdk, desiredCapacity, dgAutoScalingGroups,
                  dgTagFilters, autoscalingGroup, instanceId, scaleVars,
                  waitForVars, tagOps, previousDeployment, deploymentId,
                  pollVars, deployInfos >>

GroupsArg(groups) == IF Len(groups) = 0 THEN "[]" ELSE groups[1]

\* updateDeploymentGroup(sdk, autoScalingGroups, opts), then pc moves to next
updateDeploymentGroup(autoScalingGroups, next) ==
  /\ calls' = Append(calls, Call("updateDeploymentGroup",
                                 GroupsArg(autoScalingGroups)))
  /\ \/ /\ Throw(ServiceError)
        /\ UNCHANGED << dgAutoScalingGroups, dgTagFilters >>
     \/ /\ dgAutoScalingGroups' = autoScalingGroups
        /\ dgTagFilters' = {DEPLOYED_INSTANCE_TAG, opts.applicationName}
        /\ pc' = next
        /\ UNCHANGED error
  /\ UNCHANGED << runVars, entry, inputs, sdk, desiredCapacity, tags, autoscalingGroup,
                  instanceId, scaleVars, waitForVars, tagOps,
                  previousDeployment, deploymentId, pollVars, deployInfos >>

\* mutant: the deployment is submitted without the detach call
Detach_NotIssued ==
  /\ pc = "Detaching"
  /\ pc' = "Submitting"
  /\ UNCHANGED << runVars, entry, inputs, sdk, calls, envVars, autoscalingGroup,
                  instanceId, scaleVars, waitForVars, tagOps,
                  previousDeployment, deploymentId, pollVars, deployInfos,
                  error >>

\* "Removing ASG from Deployment Group"
Detach ==
  /\ pc = "Detaching"
  /\ updateDeploymentGroup(<< >>, "Submitting")

\* "Adding ASG to Deployment Group"
Reattach ==
  /\ pc = "Reattaching"
  /\ updateDeploymentGroup(<< autoscalingGroup >>, "TaggingActive")

\* mutant: Ready is missing from the list of ongoing statuses
ongoingStatus_WithoutReady == {"Created", "Queued", "InProgress"}

\* const ongoingStatus = ["Created", "Queued", "InProgress", "Ready"]
ongoingStatus == {"Created", "Queued", "InProgress", "Ready"}

\* mutant: the reattach step is missing after the deployment
AfterDeploy_SkipsReattach ==
  IF entry = "runDeploy" /\ inputs.deploymentType # "in-place"
  THEN "TaggingActive"
  ELSE "Done"

\* where control goes when deploy returns its result
AfterDeploy ==
  IF entry = "runDeploy" /\ inputs.deploymentType # "in-place"
  THEN "Reattaching"
  ELSE "Done"

\* the error thrown on a status that is neither Succeeded nor ongoing:
\* the argument of new Error(..) reads deploymentStatus.errorInformation.code
FailureError(response, id) ==
  IF ~ response.errorInformation.present
  THEN TypeErrorValue
  ELSE ErrorOfObject([deploymentId |-> id,
                      code |-> response.errorInformation.code,
                      message |-> response.errorInformation.message])

\* mutant: the increment is subtracted
NewWaitOf_Subtracts(w, b) == w - b

\* const newWait = wait + backOff
NewWaitOf(w, b) == w + b

\* the service reports errorInformation for failed deployments only
DeploymentResponses ==
  { r \in [status : DeploymentStatuses, overview : Overviews,
           errorInformation : ErrorInformations] :
      r.errorInformation.present =>
        r.status \notin ongoingStatus \cup {"Succeeded"} }

\* mutant: a retry ceiling, the second ongoing status gives up
PollOutcome_RetryCeiling(response) ==
  IF response.status = "Succeeded"
  THEN /\ deployInfos' = [status |-> response.status,
                          overview |-> response.overview,
                          deploymentId |-> deploymentId]
       /\ pc' = AfterDeploy
       /\ UNCHANGED << newWait, error >>
  ELSE IF response.status \in ongoingStatus /\ fetches < 1
  THEN /\ newWait' = NewWaitOf(wait, BackOffOf(sdk))
       /\ pc' = "Sleeping"
       /\ UNCHANGED << deployInfos, error >>
  ELSE /\ Throw(FailureError(response, deploymentId))
       /\ UNCHANGED << newWait, deployInfos >>

\* mutant: a status that is not ongoing ends the loop with a normal return
PollOutcome_FailureReturns(response) ==
  IF response.status \in ongoingStatus
  THEN /\ newWait' = NewWaitOf(wait, BackOffOf(sdk))
       /\ pc' = "Sleeping"
       /\ UNCHANGED << deployInfos, error >>
  ELSE /\ deployInfos' = [status |-> response.status,
                          overview |-> response.overview,
                          deploymentId |-> deploymentId]
       /\ pc' = AfterDeploy
       /\ UNCHANGED << newWait, error >>

\* what waitForBuildEndTime does with the response it fetched
PollOutcome(response) ==
  IF response.status = "Succeeded"
  THEN /\ deployInfos' = [status |-> response.status,
                          overview |-> response.overview,
                          deploymentId |-> deploymentId]
       /\ pc' = AfterDeploy
       /\ UNCHANGED << newWait, error >>
  ELSE IF response.status \in ongoingStatus
  THEN /\ newWait' = NewWaitOf(wait, BackOffOf(sdk))
       /\ pc' = "Sleeping"
       /\ UNCHANGED << deployInfos, error >>
  ELSE /\ Throw(FailureError(response, deploymentId))
       /\ UNCHANGED << newWait, deployInfos >>

\* one invocation of waitForBuildEndTime up to its sleep, return or throw
waitForBuildEndTime ==
  /\ pc = "Fetching"
  /\ fetches < MaxPolls
  /\ fetches' = fetches + 1
  /\ \/ /\ Throw(ServiceError)
        /\ UNCHANGED << deploymentStatus, inProgressSeen, newWait,
                        deployInfos >>
     \/ \E response \in DeploymentResponses :
          /\ deploymentStatus' = response
          /\ inProgressSeen' =
               IF response.status = "InProgress"
               THEN inProgressSeen + 1 ELSE inProgressSeen
          /\ PollOutcome(response)
  /\ UNCHANGED << runVars, entry, inputs, sdk, calls, envVars, autoscalingGroup,
                  instanceId, scaleVars, waitForVars, tagOps,
                  previousDeployment, deploymentId, wait, sleeps >>

\* mutant: the sleep lasts the wait of the invocation, not the increased one
SleepDuration_CurrentWait == wait

\* the duration handed to setTimeout
SleepDuration == newWait

\* mutant: the timer promise is not awaited, the retry starts without a sleep
Sleep_NotAwaited ==
  /\ pc = "Sleeping"
  /\ wait' = WaitOf([sdk EXCEPT !.wait = << newWait >>])
  /\ deploymentStatus' = NoResponse
  /\ pc' = "Fetching"
  /\ UNCHANGED << runVars, entry, inputs, sdk, calls, envVars, autoscalingGroup,
                  instanceId, scaleVars, waitForVars, tagOps,
                  previousDeployment, deploymentId, newWait, fetches,
                  inProgressSeen, sleeps, deployInfos, error >>

\* the sleep ends and waitForBuildEndTime({ ...sdk, wait: newWait }, id)
\* starts: a new invocation, which holds no response yet
Sleep ==
  /\ pc = "Sleeping"
  /\ sleeps' = Append(sleeps, SleepDuration)
  /\ wait' = WaitOf([sdk EXCEPT !.wait = << newWait >>])
  /\ deploymentStatus' = NoResponse
  /\ pc' = "Fetching"
  /\ UNCHANGED << runVars, entry, inputs, sdk, calls, envVars, autoscalingGroup,
                  instanceId, scaleVars, waitForVars, tagOps,
                  previousDeployment, deploymentId, newWait, fetches,
                  inProgressSeen, deployInfos, error >>

\* updateTags(instanceId, "", opts): both requests are issued, then awaited
UpdateTagsActive ==
  /\ pc = "TaggingActive"
  /\ calls' = calls \o << Call("deleteTags", opts.newInstanceTag),
                          Call("createTags", opts.deployedInstanceTag) >>
  /\ tagOps' = {"deleteTags", "createTags"}
  /\ pc' = "AwaitingTags"
  /\ UNCHANGED << runVars, entry, inputs, sdk, envVars, autoscalingGroup, instanceId,
                  scaleVars, waitForVars, previousDeployment, deploymentId,
                  pollVars, deployInfos, error >>

\* mutant: the delete request leaves the target tag in place
TagEffect_KeepsTarget(op, current) ==
  IF op = "deleteTags"
  THEN current
  ELSE current \cup {opts.deployedInstanceTag}

\* the effect of one request of updateTags(instanceId, "", opts) on the tags
TagEffect(op, current) ==
  IF op = "deleteTags"
  THEN current \ {opts.newInstanceTag}
  ELSE current \cup {opts.deployedInstanceTag}

\* one of the two concurrent tag requests completes
TagRequestCompletes ==
  /\ pc # "Crashed"
  /\ \E op \in tagOps :
       /\ tagOps' = tagOps \ {op}
       /\ \/ /\ tags' = [tags EXCEPT ![instanceId] = TagEffect(op, @)]
             /\ IF pc = "AwaitingTags" /\ tagOps' = {}
                THEN pc' = "ScalingDown"
                ELSE UNCHANGED pc
             /\ UNCHANGED error
          \/ /\ UNCHANGED tags
             /\ IF pc = "AwaitingTags"
                THEN Throw(ServiceError)
                ELSE UNCHANGED << pc, error >>
  /\ UNCHANGED << runVars, entry, inputs, sdk, calls, desiredCapacity,
                  dgAutoScalingGroups, dgTagFilters, autoscalingGroup,
                  instanceId, scaleVars, waitForVars, previousDeployment,
                  deploymentId, pollVars, deployInfos >>

\* mutant: runDeploy returns deployInfos without scaling down
ScaleDown_Omitted ==
  /\ pc = "ScalingDown"
  /\ pc' = "Done"
  /\ UNCHANGED << runVars, entry, inputs, sdk, calls, envVars, autoscalingGroup,
                  instanceId, scaleVars, waitForVars, tagOps,
                  previousDeployment, deploymentId, pollVars, deployInfos,
                  error >>

\* scale("DOWN", group), then runDeploy returns deployInfos
ScaleDown ==
  /\ pc = "ScalingDown"
  /\ calls' = Append(calls, Call("updateAutoScalingGroup",
                                 CapacityArg(DesiredCapacityOf("DOWN"))))
  /\ \/ /\ Throw(ServiceError)
        /\ UNCHANGED desiredCapacity
     \/ /\ desiredCapacity' = DesiredCapacityOf("DOWN")
        /\ pc' = "Done"
        /\ UNCHANGED error
  /\ UNCHANGED << runVars, entry, inputs, sdk, tags, dgAutoScalingGroups, dgTagFilters,
                  autoscalingGroup, instanceId, scaleVars, waitForVars, tagOps,
                  previousDeployment, deploymentId, pollVars, deployInfos >>

\* `Message : ${error.message}. Code ${error.code}. DeploymentId
\* ${error.deploymentId}`: the three values the template embeds
FailedMessage(e) ==
  [message |-> e.message, code |-> e.code, deploymentId |-> e.deploymentId]

\* the error of assert(value, "Deployment succeeded") when value is false
AssertionErrorValue ==
  [kind |-> "AssertionError", message |-> "Deployment succeeded",
   code |-> "ERR_ASSERTION", deploymentId |-> Undefined]

\* the value run() compares with "Succeeded" in its assertion
AssertedValue(deployment) == deployment.deploymentId

\* run(): runDeploy returned; setOutput, then the assertion inside the try
RunReturned ==
  /\ entry = "runDeploy"
  /\ pc = "Done"
  /\ runPc = "running"
  /\ output' = deployInfos.deploymentId
  /\ failed' = IF AssertedValue(deployInfos) = "Succeeded"
               THEN failed
               ELSE Append(failed, FailedMessage(AssertionErrorValue))
  /\ runPc' = "complete"
  /\ UNCHANGED << pc, entry, inputs, sdk, calls, envVars, autoscalingGroup,
                  instanceId, scaleVars, waitForVars, tagOps,
                  previousDeployment, deploymentId, pollVars, deployInfos,
                  error >>

\* run(): runDeploy rejected; the catch block reads error.message, error.code
\* and error.deploymentId, which throws when the rejection carries no value
RunCaught ==
  /\ entry = "runDeploy"
  /\ pc = "Failed"
  /\ runPc = "running"
  /\ IF error = UndefinedReason
     THEN runPc' = "threw" /\ UNCHANGED failed
     ELSE /\ failed' = Append(failed, FailedMessage(error))
          /\ runPc' = "complete"
  /\ UNCHANGED << pc, output, entry, inputs, sdk, calls, envVars,
                  autoscalingGroup, instanceId, scaleVars, waitForVars,
                  tagOps, previousDeployment, deploymentId, pollVars,
                  deployInfos, error >>

Next ==
  \/ RunDeploy
  \/ getAutoScalingGroup
  \/ ScaleUp
  \/ ScaleTick
  \/ ScaleResponse
  \/ ScaleRequestFails
  \/ WaitForTick
  \/ WaitForResponse
  \/ WaitForRequestFails
  \/ waitForDeployment
  \/ WaitDeploymentSuccessful
  \/ UpdateTagsTarget
  \/ Detach
  \/ Deploy
  \/ waitForBuildEndTime
  \/ Sleep
  \/ Reattach
  \/ UpdateTagsActive
  \/ TagRequestCompletes
  \/ ScaleDown
  \/ RunReturned
  \/ RunCaught

Spec == Init /\ [][Next]_vars

\* setInterval keeps firing the callback of waitFor while the interval is
\* set, and every describeInstanceStatus request completes: it returns or
\* it fails
SpecFair ==
  /\ Spec
  /\ WF_vars(WaitForTick)
  /\ WF_vars(WaitForResponse \/ WaitForRequestFails)

\* deploy(sdk, params) called directly (the export used by the local runner),
\* with an sdk object that may carry its own wait and backOff
InitPoll ==
  /\ pc = "Submitting"
  /\ entry = "deploy"
  /\ inputs \in [deploymentType : DeploymentTypes, branchName : BranchNames]
  /\ sdk \in [wait : SdkWaits, backOff : SdkBackOffs]
  /\ calls = << >>
  /\ desiredCapacity = 1
  /\ tags = [i \in Instances |-> {}]
  /\ dgAutoScalingGroups =
       << CHOOSE g \in GroupNames : LowerIncludes(g, opts.autoscalingGroupName) >>
  /\ dgTagFilters = {}
  /\ autoscalingGroup = Undefined
  /\ instanceId = Undefined
  /\ scaleTotalTime = 0 /\ scaleTimer = FALSE /\ scaleInflight = 0
  /\ waitTotalTime = 0 /\ waitTimer = FALSE /\ waitInflight = 0
  /\ tagOps = {}
  /\ previousDeployment = Undefined
  /\ deploymentId = Undefined
  /\ wait = 0 /\ newWait = 0
  /\ fetches = 0
  /\ deploymentStatus = NoResponse
  /\ inProgressSeen = 0
  /\ sleeps = << >>
  /\ deployInfos = NoResult
  /\ error = NoError
  /\ instanceStatus = Undefined
  /\ runPc = "running"
  /\ output = Undefined
  /\ failed = << >>

NextPoll ==
  \/ Deploy
  \/ waitForBuildEndTime
  \/ Sleep

SpecPoll == InitPoll /\ [][NextPoll]_vars

\* the event loop resumes deploy when a response or a timer is due, and the
\* service answers every request
SpecPollFair ==
  /\ SpecPoll
  /\ WF_vars(Deploy)
  /\ WF_vars(waitForBuildEndTime)
  /\ WF_vars(Sleep)


\* ================================================================ claims
BlueGreen == inputs.deploymentType = "blue-green"
InPlace == inputs.deploymentType = "in-place"
FailureStatuses == DeploymentStatuses \ (ongoingStatus \cup {"Succeeded"})

DetachCall == Call("updateDeploymentGroup", "[]")
ReattachCall == Call("updateDeploymentGroup", autoscalingGroup)
MarkTargetCall == Call("createTags", opts.newInstanceTag)
MarkActiveCalls ==
  {Call("deleteTags", opts.newInstanceTag),
   Call("createTags", opts.deployedInstanceTag)}
ScaleUpCall == Call("updateAutoScalingGroup", "2")
ScaleDownCall == Call("updateAutoScalingGroup", "1")

Issued(c) == \E i \in 1..Len(calls) : calls[i] = c
\* every occurrence of a call of set B is preceded by an occurrence of a
IssuedBefore(a, B) ==
  \A i \in 1..Len(calls) :
    calls[i] \in B => \E j \in 1..(i - 1) : calls[j] = a
\* the arguments of the calls of one operation, in order
ArgsOf(op) ==
  LET F[i \in 0..Len(calls)] ==
        IF i = 0 THEN << >>
        ELSE IF calls[i].op = op THEN Append(F[i - 1], calls[i].arg)
        ELSE F[i - 1]
  IN F[Len(calls)]

SubmitCall == Call("createDeployment", params.targetInstances)

\* C1: in a blue-green run the detach call (empty scaling-group list) is
\* issued before the deployment is submitted, and the reattach call (the
\* real scaling-group name) before the mark-as-active tagging requests.
C1_DetachBeforeDeployReattachBeforeActive ==
  BlueGreen =>
    /\ IssuedBefore(DetachCall, {SubmitCall})
    /\ IssuedBefore(ReattachCall, MarkActiveCalls)

C1_Witness ==
  /\ BlueGreen
  /\ pc = "ScalingDown"
  /\ Issued(SubmitCall)
  /\ MarkActiveCalls \subseteq {calls[i] : i \in 1..Len(calls)}

\* C2: a blue-green run that returns has performed, exactly once and in this
\* order: capacity 2, new instance observed ok, target tag, detach, submit
\* (polled to Succeeded), reattach, re-tag active, capacity 1; it returns
\* {status: Succeeded, deploymentId, overview} of that deployment.
C2_SuccessfulRunSequence ==
  (BlueGreen /\ pc = "Done") =>
    /\ calls = << ScaleUpCall,
                  Call("observedOk", instanceId),
                  MarkTargetCall,
                  DetachCall,
                  SubmitCall,
                  ReattachCall,
                  Call("deleteTags", opts.newInstanceTag),
                  Call("createTags", opts.deployedInstanceTag),
                  ScaleDownCall >>
    /\ deploymentStatus.status = "Succeeded"
    /\ deployInfos = [status |-> "Succeeded",
                      overview |-> deploymentStatus.overview,
                      deploymentId |-> deploymentId]
    /\ deploymentId \in DeploymentIds

C2_Witness ==
  /\ BlueGreen
  /\ pc = "Done"
  /\ fetches = 3
  /\ desiredCapacity = 1

\* C3: an in-place run never calls the Capacity Controller, the Tag Manager
\* or the Deployment-Group Reconfigurator, and leaves what they write alone.
C3_InPlaceNoScaleTagReconfigure ==
  InPlace =>
    /\ \A i \in 1..Len(calls) :
         calls[i].op \notin {"updateAutoScalingGroup", "createTags",
                             "deleteTags", "updateDeploymentGroup"}
    /\ desiredCapacity = 1
    /\ \A inst \in Instances : tags[inst] = {}
    /\ dgTagFilters = {}
    /\ ~ scaleTimer /\ ~ waitTimer /\ tagOps = {}

C3_Witness == InPlace /\ pc \in {"Done", "Failed"}

\* C4 (as claimed): an in-place run leaves Idle by submitting the
\* deployment: once it has left Idle, createDeployment was called once.
C4_InPlaceSubmitsDeployment ==
  (InPlace /\ pc # "Idle") => ArgsOf("createDeployment") = << Undefined >>

\* C5: once the service has reported a failure status for the deployment of
\* a blue-green run, the run has failed and has issued no reattach, no
\* mark-as-active and no scale-down: capacity is 2 and the instance holds
\* the target tag.
C5_NoCleanupAfterDeploymentFailure ==
  (BlueGreen /\ deploymentStatus.status \in FailureStatuses) =>
    /\ pc \in {"Failed", "Crashed"}
    /\ calls = << ScaleUpCall, Call("observedOk", instanceId),
                  MarkTargetCall, DetachCall, SubmitCall >>
    /\ desiredCapacity = 2
    /\ opts.newInstanceTag \in tags[instanceId]
    /\ opts.deployedInstanceTag \notin tags[instanceId]
    /\ dgAutoScalingGroups = << >>

C5_Witness ==
  /\ BlueGreen
  /\ pc = "Failed"
  /\ deploymentStatus.status = "Failed"
  /\ deploymentStatus.errorInformation.present
  /\ desiredCapacity = 2

\* C6 (as claimed): when the poll observes a terminal-failure status, deploy
\* fails with an error carrying the deploymentId and the code and message
\* of the service's error payload.
C6_FailureErrorCarriesPayload ==
  (deploymentStatus.status \in FailureStatuses /\ pc = "Failed") =>
    /\ error.deploymentId = deploymentId
    /\ error.code = deploymentStatus.errorInformation.code
    /\ error.message = deploymentStatus.errorInformation.message

\* C7 (as claimed): no blue-green run terminates with the scaling group
\* detached, and a terminated run has called the Reconfigurator exactly
\* twice, empty list first and real name second.
C7_AlwaysReattached ==
  (BlueGreen /\ pc \in {"Done", "Failed"} /\ Issued(SubmitCall)) =>
    /\ ArgsOf("updateDeploymentGroup") = << "[]", autoscalingGroup >>
    /\ dgAutoScalingGroups # << >>

\* C7 (amended): a blue-green run calls the Reconfigurator at most twice,
\* first with the empty list, before the deployment is submitted, and a
\* second time with the real scaling-group name only after the deployment
\* has reported Succeeded; a run that returns has made both calls and left
\* the group attached.
C7_DetachThenReattachOnSuccess ==
  BlueGreen =>
    /\ ArgsOf("updateDeploymentGroup") \in
         {<< >>, << "[]" >>, << "[]", autoscalingGroup >>}
    /\ Issued(SubmitCall) => ArgsOf("updateDeploymentGroup") # << >>
    /\ Issued(ReattachCall) =>
         /\ deployInfos.status = "Succeeded"
         /\ IssuedBefore(SubmitCall, {ReattachCall})
    /\ pc = "Done" =>
         /\ ArgsOf("updateDeploymentGroup") = << "[]", autoscalingGroup >>
         /\ dgAutoScalingGroups = << autoscalingGroup >>

C7_Witness ==
  /\ BlueGreen
  /\ pc = "Failed"
  /\ deploymentStatus.status = "Stopped"
  /\ dgAutoScalingGroups = << >>
  /\ ArgsOf("updateDeploymentGroup") = << "[]" >>

ReturnedAfterInProgress ==
  (deployInfos # NoResult /\ inProgressSeen = fetches - 1) =>
    /\ deploymentStatus.status = "Succeeded"
    /\ Len(sleeps) = fetches - 1
    /\ deployInfos.status = deploymentStatus.status
    /\ deployInfos.overview = deploymentStatus.overview

NoPollAfterReturn ==
  (deployInfos # NoResult) =>
    (fetches' = fetches /\ sleeps' = sleeps /\ deployInfos' = deployInfos)

\* C8: when fetches 1..N-1 report InProgress and fetch N reports Succeeded,
\* the loop has issued N fetches and slept N-1 times when it returns, it
\* returns the status and overview of the N-th fetch, and it fetches and
\* sleeps no more afterwards.
C8_FetchesAndSleeps == []ReturnedAfterInProgress /\ [][NoPollAfterReturn]_vars

C8_Witness ==
  /\ deployInfos # NoResult
  /\ fetches = 3
  /\ inProgressSeen = 2
  /\ deployInfos.overview = "ov-b"

\* C9 (as claimed): the sleep after the k-th consecutive ongoing status
\* lasts W + (k-1)*B, W the base wait and B the backoff increment.
C9_SleepIsCurrentWait ==
  \A k \in 1..Len(sleeps) :
    sleeps[k] = WaitOf(sdk) + (k - 1) * BackOffOf(sdk)

\* C9 (amended): the wait is increased before the sleep: the sleep after the
\* k-th consecutive ongoing status lasts W + k*B (45 s first by default).
C9_SleepIsIncreasedWait ==
  /\ \A k \in 1..Len(sleeps) :
       sleeps[k] = WaitOf(sdk) + k * BackOffOf(sdk)
  /\ pc = "Sleeping" =>
       SleepDuration = WaitOf(sdk) + (Len(sleeps) + 1) * BackOffOf(sdk)

C9_Witness ==
  /\ Len(sleeps) = 2
  /\ sdk = buildSdk
  /\ sleeps = << 45000, 60000 >>

WaitStep ==
  pc \in {"Fetching", "Sleeping"} =>
    /\ wait' >= wait
    /\ wait' >= WaitOf(sdk)
    /\ (pc' = "Sleeping") => (newWait' >= wait)
    /\ \A k \in 1..Len(sleeps') :
         /\ sleeps'[k] >= WaitOf(sdk)
         /\ (k > 1) => (sleeps'[k] >= sleeps'[k - 1])

\* C10: within one poll loop the wait never decreases from one retry to the
\* next and is at every retry at least the configured base wait.
C10_WaitNonDecreasing == [][WaitStep]_vars

C10_Witness ==
  /\ pc = "Fetching"
  /\ Len(sleeps) = 2
  /\ wait > WaitOf(sdk)


\* a step in which the poll loop receives the response of a status fetch
PollResponseStep == fetches' = fetches + 1 /\ deploymentStatus' # NoResponse

StatusDecides ==
  /\ PollResponseStep =>
       /\ (deployInfos' # NoResult) <=> (deploymentStatus'.status = "Succeeded")
       /\ (deploymentStatus'.status = "Succeeded") => (pc' = "Done")
       /\ (deploymentStatus'.status \in
             {"Created", "Queued", "InProgress", "Ready"}) =>
            (pc' = "Sleeping" /\ error' = NoError)
       /\ (deploymentStatus'.status \notin
             {"Created", "Queued", "InProgress", "Ready", "Succeeded"}) =>
            (pc' = "Failed" /\ error' # NoError)
  /\ (pc = "Sleeping") =>
       (pc' = "Fetching" /\ Len(sleeps') = Len(sleeps) + 1
        /\ fetches' = fetches)
  /\ (pc = "Failed") => (fetches' = fetches)

\* C11: Succeeded is the only fetched status on which deploy returns;
\* Created, Queued, InProgress and Ready each lead to a sleep and then to
\* the next fetch; any other status makes deploy fail with no further fetch.
C11_StatusDecidesOutcome == [][StatusDecides]_vars

C11_Witness ==
  /\ pc = "Failed"
  /\ deploymentStatus.status = "Baked"
  /\ Len(sleeps) = 2
  /\ fetches = 3


KeepsPolling ==
  /\ (PollResponseStep /\ deploymentStatus'.status \in ongoingStatus) =>
       /\ pc' = "Sleeping"
       /\ deployInfos' = NoResult
       /\ error' = NoError
       /\ newWait' = wait + BackOffOf(sdk)
  /\ (pc = "Sleeping") =>
       (pc' = "Fetching" /\ wait' = newWait /\ deployInfos' = NoResult)

InPollLoop == pc \in {"Fetching", "Sleeping"}
\* the loop has ended, or the model's bound on fetches is reached
PollEndedOrBound ==
  \/ pc \in {"Done", "Failed"}
  \/ pc = "Fetching" /\ fetches = MaxPolls

\* C12: an ongoing status never ends the loop and never caps the wait: the
\* loop sleeps wait + backOff and fetches again, however many ongoing
\* statuses came before; the loop runs on until a fetch ends it (Succeeded:
\* return, anything else: failure).
C12_PollsUntilTerminal ==
  [][KeepsPolling]_vars /\ (InPollLoop ~> PollEndedOrBound)

C12_Witness ==
  /\ pc = "Sleeping"
  /\ fetches = MaxPolls
  /\ Len(sleeps) = MaxPolls - 1
  /\ deploymentStatus.status \in ongoingStatus
  /\ BackOffOf(sdk) > 0
  /\ newWait = WaitOf(sdk) + MaxPolls * BackOffOf(sdk)


\* waitFor is pending exactly while pc = "AwaitingReady"; a step that
\* terminates the process is not a settlement of waitFor
WaitForSettles ==
  /\ (pc = "AwaitingReady" /\ pc' \notin {"AwaitingReady", "Crashed"}) =>
       \/ /\ pc' = "ListingDeployments"
          /\ instanceStatus' = "ok"
          /\ ~waitTimer'
          /\ error' = NoError
       \/ /\ pc' = "Failed"
          /\ error' = UndefinedReason
          /\ instanceStatus' # "ok"
          /\ waitTotalTime \div 1000 > WaitForTimeout
          /\ ~waitTimer'
  /\ (pc = "AwaitingReady" /\ instanceStatus' = "ok") =>
       pc' = "ListingDeployments"

C13_TimeoutReached ==
  /\ pc = "Failed" /\ error = UndefinedReason /\ instanceId # Undefined
  /\ instanceStatus = "initializing"


WaitForPending == pc = "AwaitingReady"
\* the promise of waitFor resolved or rejected, or the process was terminated
\* by the unhandled rejection of a callback
WaitForEnded == pc # "AwaitingReady"

\* C14: every call of waitFor eventually settles (resolves on "ok" or
\* rejects on timeout), whatever the status requests return, also when they
\* never report "ok" or keep failing. Stated in its weakest form: waitFor
\* does not stay pending forever, the end of the process counted as an end.
C14_ReadinessLoopSettles == WaitForPending ~> WaitForEnded


\* a describeInstanceStatus request of a pending loop has failed: the request
\* is no longer in flight, and the callback neither cleared the interval nor
\* added to totalTime
StatusRequestFailed ==
  \/ /\ pc = "AwaitingReady"
     /\ waitInflight' = waitInflight - 1
     /\ waitTimer' /\ waitTotalTime' = waitTotalTime
  \/ /\ pc = "Discovering"
     /\ scaleInflight' = scaleInflight - 1
     /\ scaleTimer' /\ scaleTotalTime' = scaleTotalTime

ErrorsPropagate ==
  /\ StatusRequestFailed => (pc' = "Failed" /\ error' = ServiceError)
  /\ (pc = "Failed") => (calls' = calls)

\* C15: a failed external call, the status requests of the readiness loop
\* and of the discovery loop included, makes runDeploy fail with that error,
\* and a failed runDeploy executes no later step.
C15_FailedCallFailsRun == [][ErrorsPropagate]_vars


\* run() has finished after runDeploy returned a Succeeded result
RunSucceeded ==
  /\ runPc # "running"
  /\ pc = "Done"
  /\ deployInfos.status = "Succeeded"

\* C16: when runDeploy returns a result whose status is Succeeded, run()
\* publishes the deployment id of that result as the output and setFailed
\* is not called.
C16_SuccessPublishesId ==
  RunSucceeded =>
    /\ runPc = "complete"
    /\ output = deployInfos.deploymentId
    /\ failed = << >>


\* run() has finished after runDeploy rejected
RunFailed ==
  /\ runPc # "running"
  /\ pc = "Failed"

\* C17: when runDeploy fails, for whatever reason, run() calls setFailed
\* exactly once, with the message, code and deployment id of the error that
\* runDeploy failed with, and run() itself completes without throwing.
C17_FailureReportedOnce ==
  RunFailed =>
    /\ runPc = "complete"
    /\ failed = << FailedMessage(error) >>


\* markAsTarget and markAsActive have both completed: runDeploy is past
\* `await updateTags(instanceId, "", opts)`
MarkedActive == pc = "ScalingDown" \/ Issued(ScaleDownCall)

\* the marker tags while the two requests of markAsActive are outstanding
TagsWhileMarking ==
  (IF "deleteTags" \in tagOps THEN {opts.newInstanceTag} ELSE {})
    \cup (IF "createTags" \in tagOps THEN {} ELSE {opts.deployedInstanceTag})

\* C18: from an instance carrying neither marker tag, markAsTarget followed
\* by markAsActive leaves exactly the active tag on the instance and no
\* target tag, in whichever order the concurrent deleteTags and createTags
\* requests take effect, once both have completed; no other instance is
\* tagged.
C18_TargetThenActiveLeavesActive ==
  /\ MarkedActive => tags[instanceId] = {opts.deployedInstanceTag}
  /\ (pc = "AwaitingTags") => tags[instanceId] = TagsWhileMarking
  /\ \A i \in Instances \ {instanceId} : tags[i] = {}

C18_Witness ==
  /\ pc = "ScalingDown"
  /\ tagOps = {}
  /\ tags[instanceId] = {opts.deployedInstanceTag}
  /\ Issued(MarkTargetCall)

C18_CreateFirst ==
  /\ pc = "AwaitingTags" /\ tagOps = {"deleteTags"}
  /\ tags[instanceId] = {opts.newInstanceTag, opts.deployedInstanceTag}
C18_DeleteFirst ==
  /\ pc = "AwaitingTags" /\ tagOps = {"createTags"}
  /\ tags[instanceId] = {}


\* updateDeploymentGroup has written the tag filters of the deployment group
FiltersWritten == dgTagFilters # {}

\* C19: for every profile of branchOptions, the tag filter that
\* updateDeploymentGroup writes names the active-tag key of that profile,
\* the key markAsActive puts on the instance.
C19_FilterKeyIsActiveKey ==
  FiltersWritten => opts.deployedInstanceTag \in dgTagFilters


\* scale("UP", group) has returned an instance id
ScaleReturned == instanceId # Undefined

\* C20: the instance scale("UP", group) returns is the instance the
\* scale-up of that group created: not the instance the group had before
\* and not an instance outside the group, whatever the listing contains.
C20_ScaleReturnsNewInstance ==
  ScaleReturned =>
    /\ instanceId \in GroupInstances
    /\ instanceId # PreExistingInstance
    /\ instanceId = NewInstance


\* the DesiredCapacity values of the updateAutoScalingGroup calls, in order
CapacityWrites == ArgsOf("updateAutoScalingGroup")

CapacityWritesBounded ==
  /\ CapacityWrites \in {<< >>, << "2" >>, << "2", "1" >>}
  /\ desiredCapacity \in {1, 2}

CapacityMoves ==
  (desiredCapacity' # desiredCapacity) =>
    \/ /\ desiredCapacity = 1 /\ desiredCapacity' = 2
       /\ CapacityWrites' = << "2" >>
    \/ /\ desiredCapacity = 2 /\ desiredCapacity' = 1
       /\ CapacityWrites' = << "2", "1" >>

\* C21: one run calls updateAutoScalingGroup at most twice, at most once
\* with DesiredCapacity 2 and at most once with DesiredCapacity 1, the 1
\* only after the 2, and with no other value; the desired capacity of the
\* group moves from 1 to 2 and then from 2 to 1 and in no other way.
C21_CapacityUpThenDown == [](CapacityWritesBounded) /\ [][CapacityMoves]_vars

C21_Witness ==
  /\ CapacityWrites = << "2", "1" >>
  /\ desiredCapacity = 1
  /\ pc = "Done"
  /\ runPc = "complete"


\* the target-tag keys of all profiles, and the instances holding one
TargetTags == {NEW_INSTANCE_TAG, NEW_INSTANCE_TAG_DOCTOLIB}
TargetHolders == {i \in Instances : tags[i] \cap TargetTags # {}}
ObservedOkCall == Call("observedOk", instanceId)

\* C22: at every point of a run at most one instance holds the target tag;
\* the holder is the instance scale("UP") returned, and the createTags call
\* that tags it comes after waitFor has read "ok" for that instance.
C22_SingleTargetAfterReady ==
  /\ Cardinality(TargetHolders) <= 1
  /\ TargetHolders \subseteq {instanceId}
  /\ Issued(MarkTargetCall) =>
       /\ instanceId # Undefined
       /\ instanceStatus = "ok"
       /\ IssuedBefore(ObservedOkCall, {MarkTargetCall})

C22_Witness ==
  /\ pc = "Detaching"
  /\ TargetHolders = {instanceId}
  /\ instanceStatus = "ok"


\* at most one describeInstanceStatus request of each loop is in flight
OnePollOutstanding == scaleInflight <= 1 /\ waitInflight <= 1

\* a loop whose interval is cleared starts no further request
NoPollAfterSettle ==
  /\ ~scaleTimer => scaleInflight' <= scaleInflight
  /\ ~waitTimer => waitInflight' <= waitInflight

\* C23: inside one loop of waitFor, and one loop of scale, at most one
\* status request is outstanding at any time: a poll is not started while
\* the previous poll of the loop has not completed, and none is started
\* after the loop has settled.
C23_OnePollAtATime == [](OnePollOutstanding) /\ [][NoPollAfterSettle]_vars

\* the part about settled loops alone
C23_SettledPart == [][NoPollAfterSettle]_vars


\* the targetInstances selectors of the createDeployment requests of the run
SubmittedSelectors ==
  {calls[i].arg : i \in {j \in 1..Len(calls) : calls[j].op = "createDeployment"}}

\* C24: a run that takes the scale-up and tagging path (any deployment type
\* other than "in-place", the empty and unrecognised values included)
\* submits its deployment with the targetInstances selector keyed on the
\* target tag; a request without the selector is submitted on the in-place
\* path only.
C24_TaggedPathCarriesSelector ==
  /\ ~InPlace => SubmittedSelectors \subseteq {opts.newInstanceTag}
  /\ (Undefined \in SubmittedSelectors) => InPlace


\* the error of the deploymentSuccessful waiter
PreviousDeploymentFailed == pc = "Failed" /\ error.code = "ResourceNotReady"

NothingBeyondReadiness ==
  /\ calls = << ScaleUpCall, ObservedOkCall >>
  /\ \A i \in Instances : tags[i] = {}
  /\ ~Issued(MarkTargetCall) /\ ~Issued(DetachCall) /\ ~Issued(SubmitCall)
  /\ desiredCapacity = 2

\* while the listing or the wait for the previous deployment is pending, and
\* after that deployment did not succeed, the run has done nothing beyond
\* the readiness wait
PreviousDeploymentGate ==
  (pc \in {"ListingDeployments", "AwaitingPrevious"} \/ PreviousDeploymentFailed)
    => NothingBeyondReadiness

ListingStep ==
  /\ (pc' = "ListingDeployments" /\ pc # "ListingDeployments") =>
       pc = "AwaitingReady"
  /\ (pc' = "Tagging" /\ pc # "Tagging") =>
       pc \in {"ListingDeployments", "AwaitingPrevious"}
  /\ (pc = "ListingDeployments" /\ pc' \notin {"ListingDeployments", "Failed", "Crashed"}) =>
       IF previousDeployment' = Undefined
       THEN pc' = "Tagging"
       ELSE pc' = "AwaitingPrevious"
  /\ (pc = "AwaitingPrevious" /\ pc' \notin {"AwaitingPrevious", "Crashed"}) =>
       \/ pc' = "Tagging" /\ error' = NoError
       \/ PreviousDeploymentFailed'

\* C25: between waitFor and the target tagging runDeploy lists the
\* deployments in progress: with none it goes on to the tagging at once;
\* with one the target tag is applied only after the wait for that
\* deployment succeeds, and when it does not succeed the run fails having
\* applied no tag, issued no detach, submitted no deployment, and with the
\* desired capacity still 2.
C25_WaitsForPreviousDeployment ==
  [](PreviousDeploymentGate) /\ [][ListingStep]_vars

C25_Witness ==
  /\ PreviousDeploymentFailed
  /\ desiredCapacity = 2
  /\ instanceStatus = "ok"

C25_WaitingReached == pc = "AwaitingPrevious" /\ previousDeployment \in DeploymentIds

====
